---- MODULE Spec2Model ----
(***************************************************************************)
(* Model of odpt_train_board_pi_lcd.py: the departure scheduler            *)
(* (get_future_departures, trim_departures), the frame precomputation of   *)
(* page_area / scroll_area, wipe_lcd, and the main refresh loop.           *)
(*                                                                         *)
(* Python strings are sequences of one-character strings, so that          *)
(* split(':'), int(), slicing, upper() and ljust() are computed character  *)
(* by character as the interpreter does.                                   *)
(***************************************************************************)
EXTENDS Integers, Sequences, FiniteSets, Bags, TLC

\* ------------------------------------------------------------------ bounds
\* longest departure list handed to the scheduler / trimmer
MaxDeps == 3
\* largest trim length tried
MaxLength == 4
\* longest text row handed to the frame precomputation
MaxRowLen == 5
\* widest animation window tried
MaxWidth == 4
\* most text rows handed to page_area / scroll_area on their own
MaxRows == 2
\* longest animation duration tried, in seconds
MaxDuration == 5
\* most rows wipe_lcd is asked to blank
MaxWipeRows == 5
\* widest blank string wipe_lcd is asked to write
MaxWipeWidth == 3

\* --------------------------------------------------------- configuration
lcd_width == 20

lcd_rows == 4

refresh_seconds == 30

\* time.sleep(1.5) and elapsed += 1.5, in milliseconds
TickMs == 1500

\* time.sleep(0.05) of wipe_lcd, in milliseconds
WipeDelayMs == 50

\* ------------------------------------------------------- python primitives
Min(a, b) == IF a < b THEN a ELSE b

Max(a, b) == IF a > b THEN a ELSE b

\* s[a:b] for 0 <= a, 0 <= b: both ends are clamped to len(s)
Slice(s, a, b) ==
    LET lo == Min(a, Len(s))
        hi == Min(b, Len(s))
    IN  IF hi <= lo THEN << >> ELSE SubSeq(s, lo + 1, hi)

\* ' ' * n
Spaces(n) == [i \in 1..n |-> " "]

\* s.ljust(width): pads on the right with spaces, never shortens
ljust(s, width) == IF Len(s) >= width THEN s ELSE s \o Spaces(width - Len(s))

\* sub in s: s holds sub as a run of consecutive characters
Contains(s, sub) ==
    \E i \in 0..(Len(s) - Len(sub)) : SubSeq(s, i + 1, i + Len(sub)) = sub

LowerCase ==
    << "a", "b", "c", "d", "e", "f", "g", "h", "i", "j", "k", "l", "m",
       "n", "o", "p", "q", "r", "s", "t", "u", "v", "w", "x", "y", "z" >>

UpperCase ==
    << "A", "B", "C", "D", "E", "F", "G", "H", "I", "J", "K", "L", "M",
       "N", "O", "P", "Q", "R", "S", "T", "U", "V", "W", "X", "Y", "Z" >>

\* s.upper()
upper(s) ==
    [i \in DOMAIN s |->
        IF \E k \in DOMAIN LowerCase : LowerCase[k] = s[i]
        THEN UpperCase[CHOOSE k \in DOMAIN LowerCase : LowerCase[k] = s[i]]
        ELSE s[i]]

\* value of one decimal digit character (int() of a one-digit string)
DigitVal(c) ==
    CASE c = "0" -> 0 [] c = "1" -> 1 [] c = "2" -> 2 [] c = "3" -> 3
      [] c = "4" -> 4 [] c = "5" -> 5 [] c = "6" -> 6 [] c = "7" -> 7
      [] c = "8" -> 8 [] c = "9" -> 9

\* int(s) for a string of decimal digits: leading zeros are accepted
RECURSIVE int(_)
int(s) ==
    IF Len(s) = 0 THEN 0
    ELSE 10 * int(SubSeq(s, 1, Len(s) - 1)) + DigitVal(s[Len(s)])

\* s.split(sep): the pieces of s between the occurrences of the character sep
RECURSIVE split(_, _)
split(s, sep) ==
    IF \A i \in 1..Len(s) : s[i] # sep THEN << s >>
    ELSE LET p == CHOOSE i \in 1..Len(s) :
                      s[i] = sep /\ \A j \in 1..(i - 1) : s[j] # sep
         IN  << SubSeq(s, 1, p - 1) >> \o split(SubSeq(s, p + 1, Len(s)), sep)

\* the character of one decimal digit, used to write the "HH:MM" source text
DigitChar(d) ==
    CASE d = 0 -> "0" [] d = 1 -> "1" [] d = 2 -> "2" [] d = 3 -> "3"
      [] d = 4 -> "4" [] d = 5 -> "5" [] d = 6 -> "6" [] d = 7 -> "7"
      [] d = 8 -> "8" [] d = 9 -> "9"

\* the "HH:MM" text the timetable carries for hour h (which may exceed 23)
\* and minute m
TimeText(h, m) ==
    << DigitChar(h \div 10), DigitChar(h % 10), ":",
       DigitChar(m \div 10), DigitChar(m % 10) >>

\* ------------------------------------------------------------- departures
\* "Local"
Local == << "L", "o", "c", "a", "l" >>

\* "Express"
Express == << "E", "x", "p", "r", "e", "s", "s" >>

Shibuya == << "S", "h", "i", "b", "u", "y", "a" >>

Oimachi == << "O", "i", "m", "a", "c", "h", "i" >>

Mizonokuchi == << "M", "i", "z", "o", "n", "o", "k", "u", "c", "h", "i" >>

\* one entry of the list built by get_all_departures
Departure(h, m, type, dest) ==
    [departureTime |-> TimeText(h, m), trainType |-> type,
     destinationStation |-> dest]

\* the departures the timetable may carry; the source data may use hours
\* past 23 for trains after midnight
DepartureSet ==
    { Departure(8, 5, Express, Shibuya),
      Departure(8, 10, Local, Shibuya),
      Departure(8, 30, Local, Oimachi),
      Departure(9, 0, Express, Mizonokuchi),
      Departure(23, 50, Local, Oimachi),
      Departure(0, 10, Local, Shibuya),
      Departure(24, 10, Local, Mizonokuchi),
      Departure(25, 5, Express, Oimachi) }

\* the values datetime.now() may have
NowSet ==
    { [hour |-> 8, minute |-> 7], [hour |-> 23, minute |-> 55],
      [hour |-> 0, minute |-> 0], [hour |-> 9, minute |-> 0] }

\* all sequences over S of length at most n
SeqsUpTo(S, n) == UNION { [1..k -> S] : k \in 0..n }

\* int(departure["departureTime"].split(':')[0])
DepHour(departure) == int(split(departure.departureTime, ":")[1])

\* int(departure["departureTime"].split(':')[1])
DepMinute(departure) == int(split(departure.departureTime, ":")[2])

\* ---------------------------------------------------------------- payload
\* the keys of the payload
KeyTimetable == "odpt:stationTimetableObject"

KeyTime == "odpt:departureTime"

KeyType == "odpt:trainType"

KeyDest == "odpt:destinationStation"

\* "odpt.TrainType:Tokyu.Local"
RawLocal ==
    << "o", "d", "p", "t", ".", "T", "r", "a", "i", "n", "T", "y", "p", "e",
       ":", "T", "o", "k", "y", "u", ".", "L", "o", "c", "a", "l" >>

\* "odpt.TrainType:Tokyu.Express"
RawExpress ==
    << "o", "d", "p", "t", ".", "T", "r", "a", "i", "n", "T", "y", "p", "e",
       ":", "T", "o", "k", "y", "u", ".", "E", "x", "p", "r", "e", "s", "s" >>

\* "Rapid", a train type that is neither Local nor Express
RawRapid == << "R", "a", "p", "i", "d" >>

\* "odpt.Station:Tokyu.Oimachi.Oimachi"
RawOimachi ==
    << "o", "d", "p", "t", ".", "S", "t", "a", "t", "i", "o", "n", ":", "T",
       "o", "k", "y", "u", ".", "O", "i", "m", "a", "c", "h", "i", ".", "O",
       "i", "m", "a", "c", "h", "i" >>

\* "odpt.Station:Tokyu.Oimachi.Mizonokuchi"
RawMizonokuchi ==
    << "o", "d", "p", "t", ".", "S", "t", "a", "t", "i", "o", "n", ":", "T",
       "o", "k", "y", "u", ".", "O", "i", "m", "a", "c", "h", "i", ".", "M",
       "i", "z", "o", "n", "o", "k", "u", "c", "h", "i" >>

\* "odpt.Station:Tokyu.Toyoko.Shibuya"
RawShibuya ==
    << "o", "d", "p", "t", ".", "S", "t", "a", "t", "i", "o", "n", ":", "T",
       "o", "k", "y", "u", ".", "T", "o", "y", "o", "k", "o", ".", "S", "h",
       "i", "b", "u", "y", "a" >>

\* one record of the station timetable
RawTrain(h, m, type, dests) ==
    (KeyTime :> TimeText(h, m)) @@ (KeyType :> type) @@ (KeyDest :> dests)

\* the timetable of the station, in the order the API lists it
FullTimetable ==
    << RawTrain(8, 5, RawExpress, << RawShibuya >>),
       RawTrain(8, 30, RawLocal, << RawOimachi >>),
       RawTrain(8, 10, RawLocal, << RawShibuya, RawMizonokuchi >>),
       RawTrain(9, 0, RawRapid, << RawMizonokuchi >>),
       RawTrain(23, 50, RawLocal, << RawOimachi >>),
       RawTrain(0, 10, RawExpress, << RawShibuya >>),
       RawTrain(24, 10, RawLocal, << RawMizonokuchi >>) >>

\* the entries of seq at the positions in keep, in the order of seq
RECURSIVE Restrict(_, _)
Restrict(seq, keep) ==
    IF Len(seq) = 0 THEN << >>
    ELSE Restrict(SubSeq(seq, 1, Len(seq) - 1), keep)
            \o (IF Len(seq) \in keep THEN << seq[Len(seq)] >> ELSE << >>)

\* the timetables tried: FullTimetable with any of its records left out
TimetableSet ==
    { Restrict(FullTimetable, keep) : keep \in SUBSET DOMAIN FullTimetable }

\* a record without its destination
TrainWithoutDest == (KeyTime :> TimeText(8, 30)) @@ (KeyType :> RawLocal)

\* a payload element without the timetable key
ElementWithoutKey == ("owl:sameAs" :> << "x" >>)

ElementWith(timetable) == (KeyTimetable :> timetable)

\* the bodies response.json() may return
PayloadSet ==
    { << >>, << ElementWithoutKey >> }
        \cup { << ElementWith(t) >> : t \in TimetableSet }
        \cup { << ElementWithoutKey, ElementWith(FullTimetable) >>,
               << ElementWith(SubSeq(FullTimetable, 1, 2)),
                  ElementWith(SubSeq(FullTimetable, 4, 5)) >>,
               << ElementWith(<< FullTimetable[1], TrainWithoutDest >>) >> }

\* get_stationTimetable without its break: the timetable of the last element
\* with the key
get_stationTimetable_NoBreak(response_json) ==
    IF \E i \in DOMAIN response_json : KeyTimetable \in DOMAIN response_json[i]
    THEN LET last == CHOOSE i \in DOMAIN response_json :
                        /\ KeyTimetable \in DOMAIN response_json[i]
                        /\ \A j \in (i + 1)..Len(response_json) :
                              KeyTimetable \notin DOMAIN response_json[j]
         IN  response_json[last][KeyTimetable]
    ELSE << >>

\* get_stationTimetable: the timetable of the first element with the key
get_stationTimetable(response_json) ==
    IF \E i \in DOMAIN response_json : KeyTimetable \in DOMAIN response_json[i]
    THEN LET first == CHOOSE i \in DOMAIN response_json :
                         /\ KeyTimetable \in DOMAIN response_json[i]
                         /\ \A j \in 1..(i - 1) :
                               KeyTimetable \notin DOMAIN response_json[j]
         IN  response_json[first][KeyTimetable]
    ELSE << >>

\* get_all_departures raises KeyError or IndexError on this record
RecordRaises(train) ==
    IF {KeyTime, KeyType, KeyDest} \subseteq DOMAIN train
    THEN Len(train[KeyDest]) = 0
    ELSE TRUE

\* the body of the loop of get_all_departures
NormalizedTrain(train) ==
    LET trainType ==
            IF Contains(train[KeyType], Local) THEN Local
            ELSE IF Contains(train[KeyType], Express) THEN Express
            ELSE train[KeyType]
        lastDest == train[KeyDest][Len(train[KeyDest])]
        pieces == split(lastDest, ".")
    IN  [departureTime |-> train[KeyTime], trainType |-> trainType,
         destinationStation |-> pieces[Len(pieces)]]

get_all_departures(stationTimetable) ==
    [i \in DOMAIN stationTimetable |-> NormalizedTrain(stationTimetable[i])]

\* ---------------------------------------------------------------- scheduler
\* future_hours without the rotation to the current hour: range(0, 24)
future_hours_FromMidnight(now) == [i \in 1..24 |-> i - 1]

\* future_hours one bucket short: range(now.hour, now.hour+23)
future_hours_OneShort(now) ==
    [i \in 1..23 |->
        LET hour == now.hour + (i - 1)
        IN  IF hour >= 24 THEN hour - 24 ELSE hour]

\* the list future_hours: range(now.hour, now.hour+24) folded back below 24
future_hours(now) ==
    [i \in 1..24 |->
        LET hour == now.hour + (i - 1)
        IN  IF hour >= 24 THEN hour - 24 ELSE hour]

\* the selection without the test for departures of the current hour that
\* have already left
Selected_KeepPast(departure, hour, now) == DepHour(departure) = hour

\* the selection with the departure's hour folded into 0..23 before the
\* comparison
Selected_HourMod24(departure, hour, now) ==
    /\ DepHour(departure) % 24 = hour
    /\ ~ (hour = now.hour /\ DepMinute(departure) < now.minute)

\* the condition under which the inner loop appends departure in bucket hour
Selected(departure, hour, now) ==
    /\ DepHour(departure) = hour
    /\ ~ (hour = now.hour /\ DepMinute(departure) < now.minute)

\* the inner loop leaving departure_list at the first departure whose hour
\* is not an hour of the day
HourBucket_StopAtBadHour(departure_list, hour, now) ==
    LET bad == { i \in DOMAIN departure_list :
                    DepHour(departure_list[i]) \notin 0..23 }
        stop == IF bad = {} THEN Len(departure_list) + 1
                ELSE CHOOSE i \in bad : \A j \in bad : i <= j
    IN  SelectSeq(SubSeq(departure_list, 1, stop - 1),
                  LAMBDA d : Selected(d, hour, now))

\* the inner loop over departure_list for one bucket
HourBucket(departure_list, hour, now) ==
    SelectSeq(departure_list, LAMBDA d : Selected(d, hour, now))

\* the outer loop over the first k buckets of hours
RECURSIVE BucketsUpTo(_, _, _, _)
BucketsUpTo(departure_list, hours, k, now) ==
    IF k = 0 THEN << >>
    ELSE BucketsUpTo(departure_list, hours, k - 1, now)
            \o HourBucket(departure_list, hours[k], now)

get_future_departures(departure_list, now) ==
    BucketsUpTo(departure_list, future_hours(now), 24, now)

\* ------------------------------------------------------------------- trim
\* the loop of trim_departures over the first k entries: results, and
\* whether the loop has returned early
RECURSIVE TrimLoop(_, _, _)
TrimLoop(departure_list, length, k) ==
    IF k = 0 THEN [results |-> << >>, returned |-> FALSE]
    ELSE LET prev == TrimLoop(departure_list, length, k - 1)
         IN  IF prev.returned THEN prev
             ELSE LET r == Append(prev.results, departure_list[k])
                  IN  [results |-> r, returned |-> (Len(r) = length)]

\* trim_departures with its loop starting at the second entry
trim_departures_SkipFirst(departure_list, length) ==
    IF Len(departure_list) = 0 THEN << >>
    ELSE TrimLoop(Tail(departure_list), length, Len(departure_list) - 1).results

trim_departures(departure_list, length) ==
    TrimLoop(departure_list, length, Len(departure_list)).results

\* ----------------------------------------------------------------- frames
\* math.ceil(a / b) for a >= 0, b > 0
CeilDiv(a, b) == (a + b - 1) \div b

\* page_area's frames of one row, without the padding of the last page
page_row_frames_NoPad(row, width) ==
    IF Len(row) <= width THEN << row >>
    ELSE [index \in 1..CeilDiv(Len(row), width) |->
             Slice(row, (index - 1) * width, (index - 1) * width + width)]

\* page_area's frames of one row, with the rows that need no paging padded
\* as well
page_row_frames_PadAll(row, width) ==
    IF Len(row) <= width THEN << ljust(row, width) >>
    ELSE [index \in 1..CeilDiv(Len(row), width) |->
             ljust(Slice(row, (index - 1) * width, (index - 1) * width + width),
                   width)]

\* the frames page_area precomputes for one row (the body of its first loop)
page_row_frames(row, width) ==
    IF Len(row) <= width THEN << row >>
    ELSE LET pages_required == CeilDiv(Len(row), width)
         IN  [index \in 1..pages_required |->
                 LET frame_start == (index - 1) * width
                     frame_end == IF frame_start + width > Len(row)
                                  THEN Len(row) ELSE frame_start + width
                 IN  ljust(Slice(row, frame_start, frame_end), width)]

\* scroll_area's frames of one row, with range(0, overflow_chars)
scroll_row_frames_OneShort(row, width) ==
    IF Len(row) <= width THEN << row >>
    ELSE [index \in 1..(Len(row) - width) |->
             Slice(row, index - 1, width + index - 1)]

\* the frames scroll_area precomputes for one row (the body of its first loop)
scroll_row_frames(row, width) ==
    IF Len(row) <= width THEN << row >>
    ELSE LET overflow_chars == Len(row) - width
         IN  [index \in 1..(overflow_chars + 1) |->
                 Slice(row, index - 1, width + index - 1)]

\* ------------------------------------------------------------------ state
VARIABLES
    pc,                  \* position of the program
    departure_list,      \* get_future_departures: its argument
    now,                 \* get_future_departures: datetime.now()
    future_departures,   \* the scheduled queue
    length,              \* trim_departures: its length argument
    trimmed_departures,  \* the trimmed queue
    retrimmed_departures, \* the trimmed queue, trimmed once more
    data,                \* page_area / scroll_area: the rows to animate
    start_pos,           \* page_area / scroll_area: column offset
    width,               \* page_area / scroll_area: window width
    duration_sec,        \* page_area / scroll_area: duration
    frames,              \* the precomputed frames, per row
    current_positions,   \* the cursor of each row
    elapsed,             \* elapsed animation time, in milliseconds
    lcd,                 \* what the display shows, per row and column
    ops,                 \* the display and sleep calls made so far
    overflow_animation,  \* configuration: 'paging' or 'scrolling'
    response,            \* get_departures: the outcome of requests.get
    stationTimetable,    \* get_departures: what get_stationTimetable returned
    wipe_direction,      \* wipe_lcd: its direction argument
    wipe_rows,           \* wipe_lcd: its rows argument
    wipe_width           \* wipe_lcd: its width argument

schedVars == << departure_list, now, future_departures >>

trimVars == << length, trimmed_departures, retrimmed_departures >>

animVars ==
    << data, start_pos, width, duration_sec, frames, current_positions,
       elapsed >>

lcdVars == << lcd, ops >>

wipeVars == << wipe_direction, wipe_rows, wipe_width >>

mainVars == << overflow_animation, response, stationTimetable, wipeVars >>

vars == << pc, schedVars, trimVars, animVars, lcdVars, mainVars >>

\* the value of a local that is not in scope
None == "None"

SchedIdle ==
    /\ departure_list = None
    /\ now = None
    /\ future_departures = None

TrimIdle ==
    /\ length = None
    /\ trimmed_departures = None
    /\ retrimmed_departures = None

AnimIdle ==
    /\ data = None
    /\ start_pos = None
    /\ width = None
    /\ duration_sec = None
    /\ frames = None
    /\ current_positions = None
    /\ elapsed = None

\* ---------------------------------------------------------------- display
\* the display after mylcd.lcd_clear()
BlankLcd == [r \in 1..lcd_rows |-> Spaces(lcd_width)]

\* the display after mylcd.lcd_display_string(string, row, pos): the
\* characters that fall on the display replace what was there
LcdWrite(l, string, row, pos) ==
    IF row \in 1..lcd_rows
    THEN [l EXCEPT ![row] =
            [c \in 1..lcd_width |->
                IF (c - pos) \in 1..Len(string) THEN string[c - pos]
                ELSE @[c]]]
    ELSE l

\* the calls recorded in ops; by names the function that makes the call
FetchOp == [op |-> "fetch", by |-> "get_departures"]

ClearOp(by) == [op |-> "clear", by |-> by]

WriteOp(by, string, row, pos) ==
    [op |-> "write", by |-> by, text |-> string, row |-> row, pos |-> pos]

SleepOp(by, ms) == [op |-> "sleep", by |-> by, ms |-> ms]

LcdIdle ==
    /\ lcd = BlankLcd
    /\ ops = << >>

\* the display is not used
LcdUnused ==
    /\ lcd = None
    /\ ops = None

WipeIdle ==
    /\ wipe_direction = None
    /\ wipe_rows = None
    /\ wipe_width = None

MainIdle ==
    /\ overflow_animation = None
    /\ response = None
    /\ stationTimetable = None
    /\ WipeIdle

\* --------------------------------------------- get_future_departures alone
InitSched ==
    /\ pc = "get_future_departures"
    /\ departure_list \in SeqsUpTo(DepartureSet, MaxDeps)
    /\ now \in NowSet
    /\ future_departures = None
    /\ TrimIdle
    /\ AnimIdle
    /\ LcdUnused
    /\ MainIdle

CallGetFutureDepartures ==
    /\ pc = "get_future_departures"
    /\ future_departures' = get_future_departures(departure_list, now)
    /\ pc' = "scheduled"
    /\ UNCHANGED << departure_list, now, trimVars, animVars, lcdVars,
                    mainVars >>

NextSched == CallGetFutureDepartures

SpecSched == InitSched /\ [][NextSched]_vars

\* --------------------------------------------------- trim_departures alone
InitTrim ==
    /\ pc = "trim_departures"
    /\ departure_list = None
    /\ now = None
    /\ future_departures \in SeqsUpTo(DepartureSet, MaxDeps)
    /\ length \in 0..MaxLength
    /\ trimmed_departures = None
    /\ retrimmed_departures = None
    /\ AnimIdle
    /\ LcdUnused
    /\ MainIdle

\* trimmed_departures = trim_departures(future_departures, length)
CallTrimDepartures ==
    /\ pc = "trim_departures"
    /\ trimmed_departures' = trim_departures(future_departures, length)
    /\ pc' = "trimmed"
    /\ UNCHANGED << schedVars, length, retrimmed_departures, animVars,
                    lcdVars, mainVars >>

\* the trimmed queue is handed to trim_departures once more
CallTrimDeparturesAgain ==
    /\ pc = "trimmed"
    /\ retrimmed_departures' = trim_departures(trimmed_departures, length)
    /\ pc' = "retrimmed"
    /\ UNCHANGED << schedVars, length, trimmed_departures, animVars,
                    lcdVars, mainVars >>

NextTrim == CallTrimDepartures \/ CallTrimDeparturesAgain

SpecTrim == InitTrim /\ [][NextTrim]_vars

\* ------------------------------------------ page_area / scroll_area alone
\* the characters the rows are made of, all different
Alphabet == << "A", "B", "C", "D", "E", "F", "G", "H", "I", "J", "K", "L" >>

\* the rows tried: the texts "", "A", "AB", ... up to MaxRowLen characters
RowSet == { SubSeq(Alphabet, 1, k) : k \in 0..MaxRowLen }

InitAnim ==
    /\ pc \in {"page_area", "scroll_area"}
    /\ SchedIdle
    /\ TrimIdle
    /\ data \in SeqsUpTo(RowSet, MaxRows)
    /\ start_pos \in {0, 10}
    /\ width \in 0..MaxWidth
    /\ duration_sec \in 0..MaxDuration
    /\ frames = None
    /\ current_positions = None
    /\ elapsed = None
    /\ LcdIdle
    /\ MainIdle

\* math.ceil(len(row) / width) raises ZeroDivisionError
PageDividesByZero ==
    width = 0 /\ \E r \in DOMAIN data : Len(data[r]) > width

\* page_area up to its animation loop: the frames of every row, the cursors
PagePrecompute ==
    /\ pc = "page_area"
    /\ ~ PageDividesByZero
    /\ elapsed' = 0
    /\ frames' = [r \in DOMAIN data |-> page_row_frames(data[r], width)]
    /\ current_positions' = [r \in DOMAIN data |-> 0]
    /\ pc' = "page_loop"
    /\ UNCHANGED << schedVars, trimVars, data, start_pos, width, duration_sec,
                    lcdVars, mainVars >>

\* page_area with width 0 and a non-empty row: the exception leaves the
\* program
PageRaises ==
    /\ pc = "page_area"
    /\ PageDividesByZero
    /\ pc' = "raised"
    /\ UNCHANGED << schedVars, trimVars, animVars, lcdVars, mainVars >>

\* scroll_area up to its animation loop
ScrollPrecompute ==
    /\ pc = "scroll_area"
    /\ elapsed' = 0
    /\ frames' = [r \in DOMAIN data |-> scroll_row_frames(data[r], width)]
    /\ current_positions' = [r \in DOMAIN data |-> 0]
    /\ pc' = "scroll_loop"
    /\ UNCHANGED << schedVars, trimVars, data, start_pos, width, duration_sec,
                    lcdVars, mainVars >>

\* the cursor with one wrap for all rows: every row starts again as soon as
\* one row has shown its last frame
CursorUsed_SharedWrap(r) ==
    IF \E q \in DOMAIN frames : current_positions[q] >= Len(frames[q])
    THEN 0 ELSE current_positions[r]

\* the cursor of row r as used by this tick: reset to 0 once it has reached
\* the number of frames of the row
CursorUsed(r) ==
    IF current_positions[r] >= Len(frames[r]) THEN 0 ELSE current_positions[r]

\* the frame row r shows in this tick
FrameShown(r) == frames[r][CursorUsed(r) + 1]

\* the display after the writes of this tick to rows 1..k
RECURSIVE LcdAfterRows(_)
LcdAfterRows(k) ==
    IF k = 0 THEN lcd
    ELSE LcdWrite(LcdAfterRows(k - 1), FrameShown(k), k, start_pos)

\* the pass of the animation loop under the condition elapsed <= duration_sec
AnimTick_WhileLE(by) ==
    /\ elapsed <= duration_sec * 1000
    /\ current_positions' = [r \in DOMAIN frames |-> CursorUsed(r) + 1]
    /\ lcd' = LcdAfterRows(Len(frames))
    /\ ops' = ops \o [r \in DOMAIN frames |->
                          WriteOp(by, FrameShown(r), r, start_pos)]
                  \o << SleepOp(by, TickMs) >>
    /\ elapsed' = elapsed + TickMs
    /\ UNCHANGED << pc, schedVars, trimVars, data, start_pos, width,
                    duration_sec, frames, mainVars >>

\* one pass of the animation loop (the same in scroll_area and page_area):
\* every row shows its frame and advances its cursor, then the loop sleeps
AnimTick(by) ==
    /\ elapsed < duration_sec * 1000
    /\ current_positions' = [r \in DOMAIN frames |-> CursorUsed(r) + 1]
    /\ lcd' = LcdAfterRows(Len(frames))
    /\ ops' = ops \o [r \in DOMAIN frames |->
                          WriteOp(by, FrameShown(r), r, start_pos)]
                  \o << SleepOp(by, TickMs) >>
    /\ elapsed' = elapsed + TickMs
    /\ UNCHANGED << pc, schedVars, trimVars, data, start_pos, width,
                    duration_sec, frames, mainVars >>

\* the loop condition fails and the function returns
AnimReturn ==
    /\ ~ (elapsed < duration_sec * 1000)
    /\ pc' = "after_animation"
    /\ UNCHANGED << schedVars, trimVars, animVars, lcdVars, mainVars >>

PageTick == pc = "page_loop" /\ AnimTick("page_area")

PageReturn == pc = "page_loop" /\ AnimReturn

ScrollTick == pc = "scroll_loop" /\ AnimTick("scroll_area")

ScrollReturn == pc = "scroll_loop" /\ AnimReturn

NextAnim ==
    \/ PagePrecompute
    \/ PageRaises
    \/ PageTick
    \/ PageReturn
    \/ ScrollPrecompute
    \/ ScrollTick
    \/ ScrollReturn

SpecAnim == InitAnim /\ [][NextAnim]_vars

\* -------------------------------------------------------------- formatting
\* "EXP"
ShortExpress == << "E", "X", "P" >>

\* "Loc"
ShortLocal == << "L", "o", "c" >>

\* '< NO DATA >'
NoDataText == << "<", " ", "N", "O", " ", "D", "A", "T", "A", " ", ">" >>

\* the line get_printable_departures makes of one departure
PrintableLine(departure) ==
    LET train_dest == upper(departure.destinationStation)
        train_type == IF departure.trainType = Express THEN ShortExpress
                      ELSE IF departure.trainType = Local THEN ShortLocal
                      ELSE departure.trainType
    IN  train_type \o << " " >> \o departure.departureTime
            \o << " " >> \o train_dest

get_printable_departures(list) ==
    [i \in DOMAIN list |-> PrintableLine(list[i])]

get_scrollable_destinations(list) ==
    [i \in DOMAIN list |-> upper(list[i].destinationStation)]

\* the text of one line written whole, whatever its length
PrintedText_NoCut(departure, w) == departure

\* the text print_departures writes for one line: cut to lcd_width if longer
PrintedText(departure, w) ==
    IF Len(departure) > w THEN Slice(departure, 0, w) ELSE departure

\* the display after print_departures has written the first k lines
RECURSIVE LcdAfterPrint(_, _, _)
LcdAfterPrint(list, w, k) ==
    IF k = 0 THEN BlankLcd
    ELSE LcdWrite(LcdAfterPrint(list, w, k - 1), PrintedText(list[k], w), k, 0)

\* the calls print_departures makes
PrintOps(list, w) ==
    << ClearOp("print_departures") >>
        \o [k \in DOMAIN list |->
                WriteOp("print_departures", PrintedText(list[k], w), k, 0)]

\* ------------------------------------------------------------------- wipe
\* the row of the k-th pass without the rows += 1 of line 285
WipeRow_NoIncrement(direction, rows, k) ==
    IF direction = "up" THEN rows - k ELSE k

\* the row wipe_lcd blanks in its k-th pass (k = 1..rows)
WipeRow(direction, rows, k) == IF direction = "up" THEN (rows + 1) - k ELSE k

\* the display after the first k passes of wipe_lcd
RECURSIVE LcdAfterWipe(_, _, _, _, _)
LcdAfterWipe(l, direction, rows, w, k) ==
    IF k = 0 THEN l
    ELSE LcdWrite(LcdAfterWipe(l, direction, rows, w, k - 1), Spaces(w),
                  WipeRow(direction, rows, k), 0)

\* the calls wipe_lcd makes: per pass one write and one sleep
WipeOps(direction, rows, w) ==
    [n \in 1..(2 * rows) |->
        IF n % 2 = 1
        THEN WriteOp("wipe_lcd", Spaces(w),
                     WipeRow(direction, rows, (n + 1) \div 2), 0)
        ELSE SleepOp("wipe_lcd", WipeDelayMs)]

\* ----------------------------------------------------------- wipe_lcd alone
\* the values of direction: 'up', and two that are not 'up'
DirectionSet == {"up", "down", "sideways"}

\* a display with a character in every cell
FullLcd == [r \in 1..lcd_rows |-> [c \in 1..lcd_width |-> "#"]]

InitWipe ==
    /\ pc = "wipe_lcd"
    /\ SchedIdle
    /\ TrimIdle
    /\ AnimIdle
    /\ overflow_animation = None
    /\ response = None
    /\ stationTimetable = None
    /\ wipe_direction \in DirectionSet
    /\ wipe_rows \in 0..MaxWipeRows
    /\ wipe_width \in 0..MaxWipeWidth
    /\ lcd = FullLcd
    /\ ops = << >>

\* wipe_lcd(direction, rows, width)
CallWipeLcd ==
    /\ pc = "wipe_lcd"
    /\ wipe_direction # None
    /\ lcd' = LcdAfterWipe(lcd, wipe_direction, wipe_rows, wipe_width,
                           wipe_rows)
    /\ ops' = ops \o WipeOps(wipe_direction, wipe_rows, wipe_width)
    /\ pc' = "wiped"
    /\ UNCHANGED << schedVars, trimVars, animVars, mainVars >>

NextWipe == CallWipeLcd

SpecWipe == InitWipe /\ [][NextWipe]_vars

\* -------------------------------------------------------------- main loop
\* the ways requests.get ends: an exception of one of the four handled
\* classes, or a response
TransportErrors ==
    {"HTTPError", "ConnectionError", "Timeout", "RequestException"}

Init ==
    /\ pc = "fetch"
    /\ SchedIdle
    /\ TrimIdle
    /\ AnimIdle
    /\ LcdIdle
    /\ overflow_animation \in {"paging", "scrolling"}
    /\ response = None
    /\ stationTimetable = None
    /\ WipeIdle

\* while True: the next pass of the loop begins; nothing of the previous pass
\* is read before it is assigned again
LoopBack ==
    /\ pc = "loop_back"
    /\ pc' = "fetch"
    /\ departure_list' = None
    /\ now' = None
    /\ future_departures' = None
    /\ response' = None
    /\ stationTimetable' = None
    /\ trimmed_departures' = None
    /\ retrimmed_departures' = None
    /\ length' = None
    /\ data' = None
    /\ start_pos' = None
    /\ width' = None
    /\ duration_sec' = None
    /\ frames' = None
    /\ current_positions' = None
    /\ elapsed' = None
    /\ ops' = << >>
    /\ UNCHANGED << lcd, overflow_animation, wipeVars >>

\* what get_departures leaves alone
FetchFrame ==
    /\ ops' = Append(ops, FetchOp)
    /\ UNCHANGED << trimVars, animVars, lcd, overflow_animation, wipeVars >>

\* get_departures: requests.get raises one of the handled exceptions
FetchTransportError ==
    /\ pc = "fetch"
    /\ \E e \in TransportErrors : response' = [kind |-> e]
    /\ stationTimetable' = None
    /\ departure_list' = None
    /\ now' = None
    /\ future_departures' = << >>
    /\ pc' = "check_no_data"
    /\ FetchFrame

\* get_departures: the response is falsy (status 400 and above)
FetchBadStatus ==
    /\ pc = "fetch"
    /\ response' = [kind |-> "bad_status"]
    /\ stationTimetable' = None
    /\ departure_list' = None
    /\ now' = None
    /\ future_departures' = << >>
    /\ pc' = "check_no_data"
    /\ FetchFrame

\* get_departures: the response is OK and its records are well formed
FetchData ==
    /\ pc = "fetch"
    /\ \E body \in PayloadSet, n \in NowSet :
          LET timetable == get_stationTimetable(body)
          IN  /\ \A i \in DOMAIN timetable : ~ RecordRaises(timetable[i])
              /\ response' = [kind |-> "ok", json |-> body]
              /\ stationTimetable' = timetable
              /\ departure_list' = get_all_departures(timetable)
              /\ now' = n
              /\ future_departures'
                    = get_future_departures(get_all_departures(timetable), n)
    /\ pc' = "check_no_data"
    /\ FetchFrame

\* get_departures: the response is OK but response.json() raises on its
\* body, or get_all_departures raises on a record; nothing catches it
FetchRaises ==
    /\ pc = "fetch"
    /\ \/ /\ response' = [kind |-> "ok_body_not_json"]
          /\ stationTimetable' = None
       \/ \E body \in PayloadSet :
             /\ \E i \in DOMAIN get_stationTimetable(body) :
                   RecordRaises(get_stationTimetable(body)[i])
             /\ response' = [kind |-> "ok", json |-> body]
             /\ stationTimetable' = get_stationTimetable(body)
    /\ departure_list' = None
    /\ now' = None
    /\ future_departures' = None
    /\ pc' = "raised"
    /\ FetchFrame

\* the no-data branch going on to the next pass without the wipe
NoData_NoWipe ==
    /\ pc = "check_no_data"
    /\ Len(future_departures) < 1
    /\ lcd' = LcdWrite(BlankLcd, NoDataText, 1, 0)
    /\ ops' = ops \o << ClearOp("main"), WriteOp("main", NoDataText, 1, 0),
                         SleepOp("main", refresh_seconds * 1000) >>
    /\ pc' = "loop_back"
    /\ UNCHANGED << schedVars, trimVars, animVars, mainVars >>

\* the no-data branch up to its wipe: clear, message on row 1, sleep
NoData ==
    /\ pc = "check_no_data"
    /\ Len(future_departures) < 1
    /\ lcd' = LcdWrite(BlankLcd, NoDataText, 1, 0)
    /\ ops' = ops \o << ClearOp("main"), WriteOp("main", NoDataText, 1, 0),
                         SleepOp("main", refresh_seconds * 1000) >>
    /\ pc' = "wipe_lcd"
    /\ UNCHANGED << schedVars, trimVars, animVars, mainVars >>

\* trim, format and print the departures
Render ==
    /\ pc = "check_no_data"
    /\ ~ (Len(future_departures) < 1)
    /\ length' = lcd_rows
    /\ trimmed_departures' = trim_departures(future_departures, lcd_rows)
    /\ LET printable_departures ==
              get_printable_departures(
                  trim_departures(future_departures, lcd_rows))
       IN  /\ lcd' = LcdAfterPrint(printable_departures, lcd_width,
                                   Len(printable_departures))
           /\ ops' = ops \o PrintOps(printable_departures, lcd_width)
    /\ pc' = "animate"
    /\ UNCHANGED << schedVars, retrimmed_departures, animVars, mainVars >>

\* the call of the animation with the whole display width as its window
StartAnimation_FullWidth ==
    /\ pc = "animate"
    /\ data' = get_scrollable_destinations(trimmed_departures)
    /\ start_pos' = 10
    /\ width' = lcd_width
    /\ duration_sec' = refresh_seconds
    /\ pc' = IF overflow_animation = "scrolling"
             THEN "scroll_area" ELSE "page_area"
    /\ UNCHANGED << schedVars, trimVars, frames, current_positions, elapsed,
                    lcdVars, mainVars >>

\* the call of scroll_area or page_area with the destinations
StartAnimation ==
    /\ pc = "animate"
    /\ data' = get_scrollable_destinations(trimmed_departures)
    /\ start_pos' = 10
    /\ width' = lcd_width - 10
    /\ duration_sec' = refresh_seconds
    /\ pc' = IF overflow_animation = "scrolling"
             THEN "scroll_area" ELSE "page_area"
    /\ UNCHANGED << schedVars, trimVars, frames, current_positions, elapsed,
                    lcdVars, mainVars >>

\* wipe_lcd(direction='up', rows=lcd_rows, width=lcd_width)
Wipe ==
    /\ pc \in {"wipe_lcd", "after_animation"}
    /\ lcd' = LcdAfterWipe(lcd, "up", lcd_rows, lcd_width, lcd_rows)
    /\ ops' = ops \o WipeOps("up", lcd_rows, lcd_width)
    /\ pc' = "loop_back"
    /\ UNCHANGED << schedVars, trimVars, animVars, mainVars >>

Next ==
    \/ FetchTransportError
    \/ FetchBadStatus
    \/ FetchData
    \/ FetchRaises
    \/ NoData
    \/ Render
    \/ StartAnimation
    \/ PagePrecompute
    \/ PageTick
    \/ PageReturn
    \/ ScrollPrecompute
    \/ ScrollTick
    \/ ScrollReturn
    \/ Wipe
    \/ LoopBack

Spec == Init /\ [][Next]_vars

\* ----------------------------------------------- properties of the scheduler
\* a is b with some entries removed (the order of the rest kept)
RECURSIVE IsSubsequence(_, _)
IsSubsequence(a, b) ==
    IF Len(a) = 0 THEN TRUE
    ELSE IF Len(b) = 0 THEN FALSE
    ELSE IF Head(a) = Head(b) THEN IsSubsequence(Tail(a), Tail(b))
    ELSE IsSubsequence(a, Tail(b))

\* the number of positions of seq that hold x
CountIn(seq, x) == Cardinality({ i \in DOMAIN seq : seq[i] = x })

\* the set of entries of seq
Entries(seq) == { seq[i] : i \in DOMAIN seq }

\* the departure left in the current hour before the current minute
AlreadyPast(d) == DepHour(d) = now.hour /\ DepMinute(d) < now.minute

\* whole hours from now to the hour of d, wrapping at midnight
HoursFromNow(d) == (DepHour(d) - now.hour) % 24

\* minutes from now to d, modulo 24 hours
MinutesFromNow(d) ==
    ((DepHour(d) * 60 + DepMinute(d)) - (now.hour * 60 + now.minute)) % 1440

\* the entries of seq whose hour is h
OfHour(seq, h) == SelectSeq(seq, LAMBDA d : DepHour(d) = h)

\* C1: the queue returned by get_future_departures never holds a departure of
\* the current hour whose minute is before the current minute, and the
\* returned departures of one hour are in the order the input lists them.
C1_NoPastEntryAndStableWithinHour ==
    pc = "scheduled" =>
        /\ \A i \in DOMAIN future_departures :
              ~ AlreadyPast(future_departures[i])
        /\ \A h \in 0..23 :
              IsSubsequence(OfHour(future_departures, h), departure_list)

\* C1 witness: a departure of the current hour has been left out as past and
\* two later departures of that hour were returned, listed against minute
\* order in the input.
C1_Witness ==
    /\ pc = "scheduled"
    /\ \E i \in DOMAIN departure_list : AlreadyPast(departure_list[i])
    /\ \E i, j \in DOMAIN future_departures :
          /\ i < j
          /\ DepHour(future_departures[i]) = now.hour
          /\ DepHour(future_departures[j]) = now.hour
          /\ DepMinute(future_departures[i]) > DepMinute(future_departures[j])

\* C2 as claimed: any two consecutive entries of the queue are in order of
\* their time until departure (minutes from now, modulo 24 hours).
C2_OrderedByMinutesFromNow ==
    pc = "scheduled" =>
        \A i \in 1..(Len(future_departures) - 1) :
            MinutesFromNow(future_departures[i])
                <= MinutesFromNow(future_departures[i + 1])

\* C2 amended: consecutive entries are in order of whole hours from now,
\* wrapping past midnight; when their hours differ the earlier entry leaves
\* strictly sooner; within one hour the entries keep the order of the input.
C2_OrderedByHoursFromNow ==
    pc = "scheduled" =>
        \A i \in 1..(Len(future_departures) - 1) :
            LET a == future_departures[i]
                b == future_departures[i + 1]
            IN  /\ HoursFromNow(a) <= HoursFromNow(b)
                /\ DepHour(a) # DepHour(b)
                      => MinutesFromNow(a) < MinutesFromNow(b)

\* C2 witness: the queue wraps past midnight (an entry of an hour before the
\* current one follows an entry of a later hour) and holds two entries of one
\* hour against minute order.
C2_Witness ==
    /\ pc = "scheduled"
    /\ \E i \in 1..(Len(future_departures) - 1) :
          DepHour(future_departures[i]) > DepHour(future_departures[i + 1])
    /\ \E i \in 1..(Len(future_departures) - 1) :
          /\ DepHour(future_departures[i]) = DepHour(future_departures[i + 1])
          /\ DepMinute(future_departures[i])
                > DepMinute(future_departures[i + 1])

\* C3: the 24 buckets are the hours 0..23, each once, starting at the current
\* hour; the queue lists every input departure with hour in 0..23 that has
\* not already left in the current hour exactly as often as the input does,
\* lists nothing else, and is in ascending order of (hour - now.hour) mod 24.
C3_EveryHourOnceEveryDepartureOnce ==
    pc = "scheduled" =>
        /\ Len(future_hours(now)) = 24
        /\ \A k \in 1..24 : future_hours(now)[k] = (now.hour + k - 1) % 24
        /\ \A h \in 0..23 : CountIn(future_hours(now), h) = 1
        /\ \A d \in Entries(departure_list) \cup Entries(future_departures) :
              CountIn(future_departures, d)
                  = IF DepHour(d) \in 0..23 /\ ~ AlreadyPast(d)
                    THEN CountIn(departure_list, d) ELSE 0
        /\ \A i, j \in DOMAIN future_departures :
              i < j => HoursFromNow(future_departures[i])
                          <= HoursFromNow(future_departures[j])

\* C3 witness: the input lists one departure twice and a departure of the
\* hour just before the current one; all three are in the queue.
C3_Witness ==
    /\ pc = "scheduled"
    /\ Len(departure_list) = 3
    /\ Len(future_departures) = 3
    /\ \E d \in Entries(departure_list) : CountIn(future_departures, d) = 2
    /\ \E i \in DOMAIN future_departures :
          HoursFromNow(future_departures[i]) = 23

\* C4 as claimed: a departure whose source hour is above 23 is handled as
\* hour mod 24, so it is in the queue unless, at that folded hour, it has
\* already left in the current hour.
C4_HourAbove23SelectedMod24 ==
    pc = "scheduled" =>
        \A i \in DOMAIN departure_list :
            LET d == departure_list[i]
            IN  (/\ DepHour(d) > 23
                 /\ ~ (DepHour(d) % 24 = now.hour
                          /\ DepMinute(d) < now.minute))
                    => d \in Entries(future_departures)

\* C4 amended: only the bucket hours are folded into 0..23; the hour of a
\* departure is compared as parsed, so a departure whose source hour is
\* above 23 is in no bucket and is not in the queue, and every departure of
\* the queue has hour in 0..23 and minute in 0..59.
C4_HourAbove23NeverSelected ==
    pc = "scheduled" =>
        /\ \A i \in DOMAIN departure_list :
              DepHour(departure_list[i]) > 23
                  => departure_list[i] \notin Entries(future_departures)
        /\ \A i \in DOMAIN future_departures :
              /\ DepHour(future_departures[i]) \in 0..23
              /\ DepMinute(future_departures[i]) \in 0..59

\* C4 witness: the input holds a departure written with hour 24 next to one
\* written with hour 0, and only the latter is in the queue.
C4_Witness ==
    /\ pc = "scheduled"
    /\ \E i, j \in DOMAIN departure_list :
          /\ DepHour(departure_list[i]) = 24
          /\ DepHour(departure_list[j]) = 0
          /\ departure_list[i] \notin Entries(future_departures)
          /\ departure_list[j] \in Entries(future_departures)

\* --------------------------------------------------- properties of the trim
\* C5 as claimed: trim_departures(q, n) is the first min(n, len(q)) entries
\* of q, for every n >= 0.
C5_TrimIsFirstMinEntries ==
    pc = "trimmed" =>
        trimmed_departures
            = SubSeq(future_departures, 1,
                     Min(length, Len(future_departures)))

\* C6: a queue shorter than the limit is returned unchanged, and trimming the
\* trimmed queue again with the same limit returns it unchanged.
C6_TrimIdempotent ==
    /\ (pc \in {"trimmed", "retrimmed"} /\ Len(future_departures) < length)
          => trimmed_departures = future_departures
    /\ pc = "retrimmed" => retrimmed_departures = trimmed_departures

\* C6 witness: a queue longer than the limit was cut to the limit and then
\* trimmed again.
C6_Witness ==
    /\ pc = "retrimmed"
    /\ length > 0
    /\ Len(future_departures) > length
    /\ Len(trimmed_departures) = length
    /\ Len(retrimmed_departures) = length

\* ------------------------------------------------- properties of the frames
\* the first k frames of fs, one after the other
RECURSIVE ConcatFrames(_, _)
ConcatFrames(fs, k) ==
    IF k = 0 THEN << >> ELSE ConcatFrames(fs, k - 1) \o fs[k]

\* C7: for a row of length L and a window width W with 1 <= W <= L, page_area
\* precomputes ceil(L/W) frames, frame i is row[i*W : min((i+1)*W, L)] padded
\* on the right with spaces to W characters, and the frames before the last,
\* put together, are the first (count-1)*W characters of the row.
C7_PagingFrames ==
    pc = "page_loop" =>
        \A r \in DOMAIN data :
            LET row == data[r]
                L == Len(row)
                count == Len(frames[r])
            IN  (1 <= width /\ width <= L) =>
                    /\ (count - 1) * width < L
                    /\ L <= count * width
                    /\ \A i \in 0..(count - 1) :
                          /\ Len(frames[r][i + 1]) = width
                          /\ \A j \in 1..width :
                                frames[r][i + 1][j]
                                    = IF i * width + j <= L
                                      THEN row[i * width + j] ELSE " "
                    /\ ConcatFrames(frames[r], count - 1)
                          = SubSeq(row, 1, (count - 1) * width)

\* C7 witness: a row of five characters paged in a window of two: three
\* frames, the last one padded.
C7_Witness ==
    /\ pc = "page_loop"
    /\ width = 2
    /\ \E r \in DOMAIN data :
          /\ Len(data[r]) = 5
          /\ Len(frames[r]) = 3
          /\ frames[r][3] = << data[r][5], " " >>

\* C8 as claimed: every frame page_area precomputes, for a row of any length,
\* has length exactly the window width.
C8_EveryPagingFrameHasWindowWidth ==
    pc = "page_loop" =>
        \A r \in DOMAIN frames :
            \A i \in DOMAIN frames[r] : Len(frames[r][i]) = width

\* C8 amended: every frame of a row longer than the window has length exactly
\* the window width; a row no longer than the window (the empty row too) has
\* one frame, the row itself, unpadded.
C8_PagingFrameWidthWhenPaged ==
    pc = "page_loop" =>
        \A r \in DOMAIN frames :
            IF Len(data[r]) > width
            THEN \A i \in DOMAIN frames[r] : Len(frames[r][i]) = width
            ELSE frames[r] = << data[r] >>

\* C8 witness: one row shorter than the window, kept as it is, and one row
\* longer than the window whose last page is padded.
C8_Witness ==
    /\ pc = "page_loop"
    /\ \E r \in DOMAIN data :
          Len(data[r]) < width /\ Len(frames[r][1]) < width
    /\ \E r \in DOMAIN data :
          /\ Len(data[r]) > width
          /\ Len(data[r]) % width # 0
          /\ Len(frames[r][Len(frames[r])]) = width

\* C9: for a row of length L and a window width W with L > W, scroll_area
\* precomputes L - W + 1 frames of length W, frame i is row[i : i+W], and
\* frame i+1 without its last character is frame i without its first; for
\* L <= W there is one frame, the row.
C9_ScrollingFrames ==
    pc = "scroll_loop" =>
        \A r \in DOMAIN data :
            LET row == data[r]
                L == Len(row)
                count == Len(frames[r])
            IN  IF L > width
                THEN /\ count = L - width + 1
                     /\ \A i \in 0..(count - 1) :
                           /\ Len(frames[r][i + 1]) = width
                           /\ \A j \in 1..width :
                                 frames[r][i + 1][j] = row[i + j]
                     /\ \A i \in 1..(count - 1) :
                           SubSeq(frames[r][i + 1], 1, width - 1)
                               = SubSeq(frames[r][i], 2, width)
                ELSE frames[r] = << row >>

\* C9 witness: a row of five characters scrolled in a window of two (four
\* frames) next to a row that fits the window.
C9_Witness ==
    /\ pc = "scroll_loop"
    /\ width = 2
    /\ \E r \in DOMAIN data : Len(data[r]) = 5 /\ Len(frames[r]) = 4
    /\ \E r \in DOMAIN data : Len(data[r]) <= 2 /\ Len(frames[r]) = 1

\* ---------------------------------------------- properties of the main loop
\* the part of the cycle a recorded call belongs to: 0 fetch, 1 no-data
\* message or render, 2 animation, 3 wipe
Phase(o) ==
    CASE o.by = "get_departures" -> 0
      [] o.by \in {"main", "print_departures"} -> 1
      [] o.by \in {"page_area", "scroll_area"} -> 2
      [] o.by = "wipe_lcd" -> 3

\* the recorded calls made by one of the functions in bys
OpsBy(bys) == SelectSeq(ops, LAMBDA o : o.by \in bys)

\* the recorded display writes made by one of the functions in bys
WritesBy(bys) == SelectSeq(ops, LAMBDA o : o.by \in bys /\ o.op = "write")

\* the recorded sleeps made by one of the functions in bys
SleepsBy(bys) == SelectSeq(ops, LAMBDA o : o.by \in bys /\ o.op = "sleep")

Animators == {"page_area", "scroll_area"}

\* the number of rows rendered in this cycle
RowsShown == Min(Len(future_departures), lcd_rows)

\* C10: every cycle is FETCH, then either the no-data message or RENDER and
\* ANIMATE, then WIPE. The calls of one cycle begin with the fetch and come
\* in that order; the cycle ends with exactly one wipe, its last display
\* activity; an empty queue gives clear, the message on row 1 only, a sleep
\* of the whole refresh time and the wipe, with no render or animation
\* write; a non-empty queue has the whole render before the first animation
\* write and the whole animation before the wipe.
C10_CycleOrder ==
    /\ ops # << >> =>
          /\ ops[1] = FetchOp
          /\ Len(OpsBy({"get_departures"})) = 1
    /\ \A i, j \in DOMAIN ops : i < j => Phase(ops[i]) <= Phase(ops[j])
    /\ Len(OpsBy({"wipe_lcd"})) = IF pc = "loop_back" THEN 2 * lcd_rows ELSE 0
    /\ pc = "loop_back" =>
          /\ ops[Len(ops)] = SleepOp("wipe_lcd", WipeDelayMs)
          /\ ops[Len(ops) - 1].by = "wipe_lcd"
          /\ ops[Len(ops) - 1].op = "write"
          /\ \A r \in 1..lcd_rows :
                Len(SelectSeq(WritesBy({"wipe_lcd"}),
                              LAMBDA o : o.row = r)) = 1
          /\ IF Len(future_departures) = 0
             THEN /\ SubSeq(ops, 2, 4)
                        = << ClearOp("main"),
                             WriteOp("main", NoDataText, 1, 0),
                             SleepOp("main", refresh_seconds * 1000) >>
                  /\ Len(OpsBy({"main"})) = 3
                  /\ Len(OpsBy({"print_departures"} \cup Animators)) = 0
             ELSE /\ Len(OpsBy({"main"})) = 0
                  /\ Len(OpsBy({"print_departures"})) = 1 + RowsShown
    /\ Len(OpsBy(Animators)) > 0 =>
          /\ Len(OpsBy({"main"})) = 0
          /\ ops[2] = ClearOp("print_departures")
          /\ Len(WritesBy({"print_departures"})) = RowsShown
    /\ Len(OpsBy({"wipe_lcd"})) > 0 /\ Len(future_departures) > 0 =>
          /\ Len(SleepsBy(Animators)) * TickMs >= refresh_seconds * 1000
          /\ Len(WritesBy(Animators))
                = RowsShown * Len(SleepsBy(Animators))

\* C10 witness: a cycle with more departures than rows has rendered,
\* animated and wiped, and is about to fetch again.
C10_Witness ==
    /\ pc = "loop_back"
    /\ Len(future_departures) > lcd_rows
    /\ Len(WritesBy({"print_departures"})) = lcd_rows
    /\ Len(WritesBy(Animators)) > 0
    /\ Len(WritesBy({"wipe_lcd"})) = lcd_rows

\* the no-data cycle has shown its message, slept and wiped, and is about to
\* fetch again
C10_WitnessNoData ==
    /\ pc = "loop_back"
    /\ Len(future_departures) = 0
    /\ Len(WritesBy({"main"})) = 1
    /\ Len(WritesBy({"wipe_lcd"})) = lcd_rows

\* ------------------------------------------------ properties of the fetch
\* the outcomes of the request that are failures: the four exception classes
\* handled around requests.get (connection failure and timeout among them),
\* a non-success status, and a body that is not JSON
FailureKinds == TransportErrors \cup {"bad_status", "ok_body_not_json"}

\* C11 as claimed: for every failure of the request (connection failure,
\* timeout, non-success status, malformed body) get_departures returns the
\* empty list, no exception leaves it, and the cycle goes on to the no-data
\* branch.
C11_FailuresGiveEmptyList ==
    (pc # "fetch" /\ response.kind \in FailureKinds) =>
        /\ pc # "raised"
        /\ future_departures = << >>

\* C12 as claimed: whatever the fetch delivers (data, no data, a transport
\* failure, a payload without the timetable key, records with malformed
\* fields), the main loop never ends in an exception.
C12_NoFatalCondition ==
    (pc # "fetch" /\ response.kind \in TransportErrors \cup {"bad_status", "ok"})
        => pc # "raised"

\* C13: get_stationTimetable returns the timetable of the first payload
\* element that has the timetable key, whatever later elements hold, and the
\* empty sequence when no element has the key.
C13_FirstTimetableOrEmpty ==
    (pc # "fetch" /\ response.kind = "ok") =>
        LET json == response.json
            with == { i \in DOMAIN json : KeyTimetable \in DOMAIN json[i] }
        IN  /\ with = {} => stationTimetable = << >>
            /\ \A i \in with :
                  (\A j \in with : i <= j)
                      => stationTimetable = json[i][KeyTimetable]

\* C13 witness: two elements of the payload hold different timetables and
\* the one of the first has been returned.
C13_Witness ==
    /\ pc = "check_no_data"
    /\ response.kind = "ok"
    /\ Len(response.json) = 2
    /\ KeyTimetable \in DOMAIN response.json[1]
    /\ KeyTimetable \in DOMAIN response.json[2]
    /\ response.json[1][KeyTimetable] # response.json[2][KeyTimetable]
    /\ stationTimetable = response.json[1][KeyTimetable]

\* a payload without the key has given the empty timetable
C13_WitnessNoKey ==
    /\ pc = "check_no_data"
    /\ response.kind = "ok"
    /\ Len(response.json) = 1
    /\ KeyTimetable \notin DOMAIN response.json[1]
    /\ stationTimetable = << >>

\* --------------------------------------- properties of the animation loop
InAnimation == pc \in {"page_loop", "scroll_loop", "after_animation"}

\* the number of passes of the animation loop made so far
TicksDone == Len(SelectSeq(ops, LAMBDA o : o.op = "sleep"))

\* C14: every row has its own cursor. In the k-th pass (k = 0, 1, 2, ...)
\* row r is written, at the column offset, with frame number k mod count_r
\* of its own frames; the index used to read a frame is within
\* 0..count_r - 1; so rows with different numbers of frames wrap
\* independently of each other.
C14_RowCursorsIndependent ==
    InAnimation =>
        LET n == Len(frames)
        IN  /\ Len(ops) = TicksDone * (n + 1)
            /\ \A t \in 0..(TicksDone - 1) :
                  \A r \in 1..n :
                      LET o == ops[t * (n + 1) + r]
                      IN  /\ o.op = "write"
                          /\ o.row = r
                          /\ o.pos = start_pos
                          /\ o.text = frames[r][(t % Len(frames[r])) + 1]
            /\ \A r \in 1..n :
                  /\ CursorUsed(r) \in 0..(Len(frames[r]) - 1)
                  /\ current_positions[r]
                        = IF TicksDone = 0 THEN 0
                          ELSE ((TicksDone - 1) % Len(frames[r])) + 1

\* C14 witness: two rows with one and with two frames have both wrapped, in
\* different passes: after three passes the first shows its only frame for
\* the third time and the second its first frame for the second time.
C14_Witness ==
    /\ InAnimation
    /\ Len(frames) = 2
    /\ Len(frames[1]) = 1
    /\ Len(frames[2]) = 2
    /\ frames[2][1] # frames[2][2]
    /\ TicksDone = 3
    /\ ops[7].text = frames[1][1]
    /\ ops[8].text = frames[2][1]

\* C15: the animation loop counts passes, not time. elapsed is 1.5 s times
\* the number of passes; a pass is made only while elapsed is below the
\* duration, so no pass starts at or after the duration (none at all for
\* duration 0) and the loop cannot go on for ever; when the loop has
\* returned, elapsed has reached the duration: the number of passes is
\* ceil(duration / 1.5), whatever the rows and frames.
C15_TickCountedLoop ==
    InAnimation =>
        /\ elapsed = TicksDone * TickMs
        /\ TicksDone > 0 => (TicksDone - 1) * TickMs < duration_sec * 1000
        /\ pc = "after_animation" =>
              /\ TicksDone * TickMs >= duration_sec * 1000
              /\ \A k \in 0..(TicksDone - 1) : k * TickMs < duration_sec * 1000
              /\ duration_sec = 0 => TicksDone = 0 /\ ops = << >>

\* C15 witness: with duration 2 the loop of two rows has returned after two
\* passes, elapsed 3.0 being the first multiple of 1.5 that is not below 2.
C15_Witness ==
    /\ pc = "after_animation"
    /\ duration_sec = 2
    /\ Len(frames) = 2
    /\ TicksDone = 2
    /\ elapsed = 3000

\* with duration 0 the loop has returned without a pass
C15_WitnessZero ==
    /\ pc = "after_animation"
    /\ duration_sec = 0
    /\ Len(frames) > 0
    /\ TicksDone = 0

\* ------------------------------------------- properties of the main display
\* the display as RENDER left it in this cycle
LcdRendered ==
    LcdAfterPrint(get_printable_departures(trimmed_departures), lcd_width,
                  Len(trimmed_departures))

\* C16: during ANIMATE every display write goes to a row in 1..n, n being
\* the number of trimmed departures (at most the row count), at the
\* configured column offset 10, with a text no longer than the window; so
\* no write reaches past the display width, the columns left of the offset
\* hold exactly what RENDER wrote, and the rows below n are as RENDER left
\* them.
C16_AnimateStaysInWindow ==
    InAnimation =>
        LET n == Len(trimmed_departures)
            writes == WritesBy(Animators)
        IN  /\ n <= lcd_rows
            /\ start_pos = 10
            /\ \A i \in DOMAIN writes :
                  /\ writes[i].row \in 1..n
                  /\ writes[i].pos = start_pos
                  /\ Len(writes[i].text) <= width
                  /\ writes[i].pos + Len(writes[i].text) <= lcd_width
            /\ \A r \in 1..lcd_rows :
                  /\ Slice(lcd[r], 0, start_pos)
                        = Slice(LcdRendered[r], 0, start_pos)
                  /\ r > n => lcd[r] = LcdRendered[r]

\* C16 witness: the animation has written a text that fills the window on
\* row 2 of a display with a non-blank left part, and has changed the right
\* part of that row; the left part is the rendered one.
C16_Witness ==
    /\ InAnimation
    /\ Len(trimmed_departures) >= 2
    /\ \E i \in DOMAIN ops :
          /\ ops[i].by \in Animators
          /\ ops[i].op = "write"
          /\ ops[i].row = 2
          /\ Len(ops[i].text) = width
    /\ lcd[2] # LcdRendered[2]
    /\ Slice(lcd[2], 0, 10) = Slice(LcdRendered[2], 0, 10)
    /\ Slice(lcd[2], 0, 10) # Spaces(10)

\* the short type get_printable_departures puts at the head of the line
ShortType(departure) ==
    IF departure.trainType = Express THEN ShortExpress
    ELSE IF departure.trainType = Local THEN ShortLocal
    ELSE departure.trainType

\* C17: for every departure of the trimmed queue, after RENDER columns 0..9
\* of its row hold exactly the short type, a space, the time and a space,
\* and the destination begins at column 10, the column offset of the
\* animation; so writing the first animation frame at that offset leaves
\* the row as RENDER wrote it.
C17_DestinationAtAnimationOffset ==
    /\ (pc = "animate" \/ InAnimation) =>
          \A k \in DOMAIN trimmed_departures :
              LET d == trimmed_departures[k]
                  dest == upper(d.destinationStation)
              IN  /\ Slice(LcdRendered[k], 0, 10)
                        = ShortType(d) \o << " " >> \o d.departureTime
                              \o << " " >>
                  /\ Slice(LcdRendered[k], 10, lcd_width)
                        = Slice(ljust(dest, lcd_width - 10), 0,
                                lcd_width - 10)
    /\ pc \in {"page_loop", "scroll_loop"} =>
          \A k \in DOMAIN frames :
              LcdWrite(LcdRendered, frames[k][1], k, start_pos) = LcdRendered

\* the cycle has rendered and not yet wiped
Rendered ==
    pc \in {"animate", "page_area", "scroll_area", "page_loop", "scroll_loop",
            "after_animation"}

\* C18: RENDER clears the display before it writes a row, and nothing has
\* been written in the cycle before that; then it writes the k-th formatted
\* line (k = 1..n, n at most the row count) to row k at column 0, once: the
\* line itself when it is no longer than the display width, its first
\* lcd_width characters otherwise. The destination ANIMATE gets for row k
\* is that of the same k-th trimmed departure, and what it writes on row k
\* is a frame of that row.
C18_RenderRowPerLine ==
    Rendered =>
        LET n == Len(trimmed_departures)
            p == OpsBy({"print_departures"})
            line(k) == PrintableLine(trimmed_departures[k])
        IN  /\ n <= lcd_rows
            /\ ops[1].op # "write"
            /\ ops[2] = ClearOp("print_departures")
            /\ Len(p) = n + 1
            /\ p = SubSeq(ops, 2, n + 2)
            /\ \A k \in 1..n :
                  /\ p[k + 1].op = "write"
                  /\ p[k + 1].row = k
                  /\ p[k + 1].pos = 0
                  /\ p[k + 1].text
                        = IF Len(line(k)) > lcd_width
                          THEN SubSeq(line(k), 1, lcd_width)
                          ELSE line(k)
                  /\ Len(p[k + 1].text) <= lcd_width
            /\ pc # "animate" =>
                  /\ Len(data) = n
                  /\ \A k \in 1..n :
                        data[k]
                           = upper(trimmed_departures[k].destinationStation)
            /\ InAnimation =>
                  \A i \in DOMAIN ops :
                      (ops[i].by \in Animators /\ ops[i].op = "write") =>
                          /\ ops[i].row \in 1..n
                          /\ \E j \in DOMAIN frames[ops[i].row] :
                                ops[i].text = frames[ops[i].row][j]

\* C18 witness: two lines have been rendered, one longer than the display
\* and cut to its width, one shorter and written whole, and the animation
\* has written on the row of each.
C18_Witness ==
    /\ InAnimation
    /\ Len(trimmed_departures) >= 2
    /\ \E k, m \in DOMAIN trimmed_departures :
          /\ Len(PrintableLine(trimmed_departures[k])) > lcd_width
          /\ Len(ops[k + 2].text) = lcd_width
          /\ Len(PrintableLine(trimmed_departures[m])) < lcd_width
          /\ ops[m + 2].text = PrintableLine(trimmed_departures[m])
          /\ \E i, j \in DOMAIN ops :
                /\ ops[i].by \in Animators /\ ops[i].op = "write"
                /\ ops[i].row = k
                /\ ops[j].by \in Animators /\ ops[j].op = "write"
                /\ ops[j].row = m

\* ------------------------------------------------- properties of the wipe
\* the display writes wipe_lcd has made
WipeWrites == SelectSeq(ops, LAMBDA o : o.op = "write")

\* C19: wipe_lcd(direction, rows, width) makes rows writes, each of width
\* spaces at column 0 and each followed by a sleep of 0.05 s; the i-th
\* write goes to row rows + 1 - i when direction is 'up' (rows, rows - 1,
\* ..., 1) and to row i otherwise (1, 2, ..., rows); so every row in
\* 1..rows is written exactly once and no other row is written, and on the
\* display the first width columns of these rows are blank and the rest is
\* as before.
C19_WipeOrder ==
    pc = "wiped" =>
        /\ Len(WipeWrites) = wipe_rows
        /\ Len(ops) = 2 * wipe_rows
        /\ \A i \in 1..wipe_rows :
              /\ ops[2 * i - 1].op = "write"
              /\ ops[2 * i - 1].text = Spaces(wipe_width)
              /\ ops[2 * i - 1].pos = 0
              /\ ops[2 * i - 1].row
                    = IF wipe_direction = "up" THEN wipe_rows + 1 - i ELSE i
              /\ ops[2 * i] = SleepOp("wipe_lcd", WipeDelayMs)
        /\ \A r \in 1..wipe_rows :
              Cardinality({ i \in DOMAIN WipeWrites : WipeWrites[i].row = r })
                  = 1
        /\ \A i \in DOMAIN WipeWrites : WipeWrites[i].row \in 1..wipe_rows
        /\ \A i, j \in DOMAIN WipeWrites :
              i < j => IF wipe_direction = "up"
                       THEN WipeWrites[i].row > WipeWrites[j].row
                       ELSE WipeWrites[i].row < WipeWrites[j].row
        /\ \A r \in 1..lcd_rows :
              lcd[r] = IF r <= wipe_rows
                       THEN Spaces(wipe_width)
                                \o Slice(FullLcd[r], wipe_width, lcd_width)
                       ELSE FullLcd[r]

\* C19 witness: an upward wipe of three rows has blanked row 3 first and
\* row 1 last.
C19_Witness ==
    /\ pc = "wiped"
    /\ wipe_direction = "up"
    /\ wipe_rows = 3
    /\ wipe_width = 2
    /\ WipeWrites[1].row = 3
    /\ WipeWrites[3].row = 1
    /\ lcd[3] # FullLcd[3]
    /\ lcd[4] = FullLcd[4]

\* a wipe in a direction that is not 'up' has blanked row 1 first
C19_WitnessDown ==
    /\ pc = "wiped"
    /\ wipe_direction = "sideways"
    /\ wipe_rows = 3
    /\ WipeWrites[1].row = 1
    /\ WipeWrites[3].row = 3

\* ------------------------------------ properties of the hours out of range
\* the hour of d is an hour of the day
HourOfDay(d) == DepHour(d) \in 0..23

\* C20: a departure whose parsed hour is outside 0..23 is never in the
\* output of get_future_departures, and the output is what it would be
\* without these departures in the input: the same other departures are
\* selected, in the same order.
C20_OutOfRangeHourDropped ==
    pc = "scheduled" =>
        /\ \A i \in DOMAIN future_departures :
              HourOfDay(future_departures[i])
        /\ future_departures
              = get_future_departures(SelectSeq(departure_list, HourOfDay),
                                      now)

\* C20 witness: a departure written with an hour above 23 stands in the
\* input between two departures of the day that are both still to come;
\* the output is these two, in the order from now, and nothing else.
C20_Witness ==
    /\ pc = "scheduled"
    /\ Len(departure_list) = 3
    /\ HourOfDay(departure_list[1])
    /\ ~ HourOfDay(departure_list[2])
    /\ HourOfDay(departure_list[3])
    /\ departure_list[1] # departure_list[3]
    /\ future_departures = << departure_list[3], departure_list[1] >>

====
